---- MODULE Spec2Model ----
(***************************************************************************)
(* A model of the command bar widget of tui-command-bar-widget:            *)
(* src/src/widgets/command_bar.rs (CommandBar, its KeyHook implementation, *)
(* submit, handle_event and render) together with the two ends of the      *)
(* std::sync::mpsc channel the bar sends the committed text on, and the    *)
(* Popup of src/src/widgets/popup.rs that wraps a bar.                     *)
(*                                                                         *)
(* A character is a one-character string, a text (String) a sequence of    *)
(* characters.  The variables input .. key_database are the fields of the  *)
(* struct; rx_alive and chan are the receiving end of the channel;         *)
(* panicked records that a call has panicked; last records the call made   *)
(* last, what it read and what it returned; show_popup is the field of the *)
(* Popup that holds the bar (it stays false for a bar used on its own).    *)
(***************************************************************************)
EXTENDS Integers, Sequences, FiniteSets, TLC

VARIABLES command_key, input, input_mode, messages, tx_channel, width,
          key_database, rx_alive, chan, panicked, last, show_popup

bar  == <<command_key, input, input_mode, messages, tx_channel, width, key_database>>
env  == <<rx_alive, chan>>
vars == <<command_key, input, input_mode, messages, tx_channel, width,
          key_database, rx_alive, chan, panicked, last, show_popup>>

----------------------------------------------------------------------------
(* Bounds of the model *)

\* the most characters the model lets the bar hold, input and history together
MaxText == 2
\* the most entries the model lets the history hold
MaxHist == 2
\* the widest area the model grants to render
MaxArea == 4

\* u16: the type of CommandBar::width and of Rect::width
U16 == 65536

----------------------------------------------------------------------------
(* Characters and their display width (unicode_width) *)

\* ':' 'a' 'b' are narrow, "W" stands for a wide (East Asian) character and
\* "Z" for a zero-width (combining) character
Chars == {":", "a", "b", "W", "Z"}

CharWidth(c) ==
    CASE c = "W" -> 2
      [] c = "Z" -> 0
      [] OTHER   -> 1

RECURSIVE StrWidth(_)
StrWidth(s) ==
    IF s = <<>> THEN 0 ELSE CharWidth(Head(s)) + StrWidth(Tail(s))

----------------------------------------------------------------------------
(* InputMode, Option, events and results *)

Normal  == "Normal"
Editing == "Editing"

None == "None"
Some == "Some"

NoEvent == [kind |-> "-", code |-> "-", ch |-> "-"]

KeyChar(c)   == [kind |-> "Key", code |-> "Char", ch |-> c]
KeyEnter     == [kind |-> "Key", code |-> "Enter", ch |-> "-"]
KeyEsc       == [kind |-> "Key", code |-> "Esc", ch |-> "-"]
KeyBackspace == [kind |-> "Key", code |-> "Backspace", ch |-> "-"]
KeyTab       == [kind |-> "Key", code |-> "Tab", ch |-> "-"]
ResizeEvent  == [kind |-> "Resize", code |-> "-", ch |-> "-"]
MouseEvent   == [kind |-> "Mouse", code |-> "-", ch |-> "-"]

\* what event::read() returns: Ok(event) or Err
ReadOk(e) == [ok |-> TRUE, event |-> e]
ReadErr   == [ok |-> FALSE, event |-> NoEvent]

\* EventHandlerResult
ResOk           == [tag |-> "Ok", event |-> NoEvent]
ResErr          == [tag |-> "Err", event |-> NoEvent]
ResUnhandled(e) == [tag |-> "Unhandled", event |-> e]

\* what a render that reached Paragraph::render leaves in the buffer
Drawn == [tag |-> "Drawn", event |-> NoEvent]

\* Result<(), SendError<String>> of submit
SendOk     == [tag |-> "SendOk", event |-> NoEvent]
SendErr    == [tag |-> "SendError", event |-> NoEvent]
NoResult   == [tag |-> "-", event |-> NoEvent]

\* The callbacks a host registers: the closure of the tests and examples,
\* |cb, key| cb.command_key_handler(key), and a closure that leaves the bar
\* untouched.
CkhClosure  == "command_key_handler"
NoopClosure == "noop"
Callbacks   == {CkhClosure, NoopClosure}

NoRead == [ok |-> FALSE, event |-> [kind |-> "none", code |-> "-", ch |-> "-"]]

\* The record of the last call: the operation, what it was given (the result
\* of event::read(), the key and callback, the area width), what it returned
\* and the callbacks it invoked, in order, each as <<callback, character>>.
Call(op, read, key, fn, area, res, calls) ==
    [op |-> op, read |-> read, key |-> key, fn |-> fn, area |-> area,
     res |-> res, calls |-> calls]

----------------------------------------------------------------------------
(* The state after CommandBar::default() or default_with_tx_channel(tx),  *)
(* and of the Popup after Popup::default()                                *)

\* the constructor that leaves the sink tx
Constructor(tx) == IF tx = Some THEN "default_with_tx_channel" ELSE "default"

\* a faulty variant: the constructors start in Editing mode
InitEditing ==
    /\ command_key = None
    /\ input = <<>>
    /\ input_mode = Editing
    /\ messages = <<>>
    /\ tx_channel \in {None, Some}
    /\ width = 0
    /\ key_database = [c \in Chars |-> None]
    /\ rx_alive = TRUE
    /\ chan = <<>>
    /\ show_popup = FALSE
    /\ panicked = FALSE
    /\ last = Call(Constructor(tx_channel), NoRead, "-", "-", -1, NoResult, <<>>)

Init ==
    /\ command_key = None
    /\ input = <<>>
    /\ input_mode = Normal
    /\ messages = <<>>
    /\ tx_channel \in {None, Some}
    /\ width = 0
    /\ key_database = [c \in Chars |-> None]
    /\ rx_alive = TRUE
    /\ chan = <<>>
    /\ show_popup = FALSE
    /\ panicked = FALSE
    /\ last = Call(Constructor(tx_channel), NoRead, "-", "-", -1, NoResult, <<>>)

----------------------------------------------------------------------------
(* impl KeyHook for CommandBar *)

\* KeyDatabase::keys, a HashMap<char, callback>, is a function on the
\* characters whose value is None where the map has no entry.

\* HashMap::contains_key
contains_key(db, key) == db[key] # None

\* a faulty variant: the new entry replaces the whole map
InsertAlone(db, key, f) == [c \in DOMAIN db |-> IF c = key THEN f ELSE None]

\* a faulty variant: an entry that exists is kept (entry().or_insert)
InsertKeepsOld(db, key, f) == IF db[key] # None THEN db ELSE [db EXCEPT ![key] = f]

\* HashMap::insert: inserts, or replaces the value of, the entry of key
Insert(db, key, f) == [db EXCEPT ![key] = f]

\* HashMap::remove
Remove(db, key) == [db EXCEPT ![key] = None]

register_key(key, f) ==
    /\ ~panicked
    /\ command_key' = key
    /\ key_database' = Insert(key_database, key, f)
    /\ last' = Call("register_key", NoRead, key, f, -1, NoResult, <<>>)
    /\ UNCHANGED <<input, input_mode, messages, tx_channel, width, env, panicked,
                   show_popup>>

\* a faulty variant: unregistering any key clears the command key
unregister_key_clears(key) ==
    /\ ~panicked
    /\ key_database' = Remove(key_database, key)
    /\ command_key' = None
    /\ last' = Call("unregister_key", NoRead, key, "-", -1, NoResult, <<>>)
    /\ UNCHANGED <<input, input_mode, messages, tx_channel, width, env, panicked,
                   show_popup>>

unregister_key(key) ==
    /\ ~panicked
    /\ key_database' = Remove(key_database, key)
    /\ command_key' = IF command_key # None /\ command_key = key THEN None ELSE command_key
    /\ last' = Call("unregister_key", NoRead, key, "-", -1, NoResult, <<>>)
    /\ UNCHANGED <<input, input_mode, messages, tx_channel, width, env, panicked,
                   show_popup>>

----------------------------------------------------------------------------
(* CommandBar::submit, normal, command_key_handler *)

\* the characters the bar holds, in input and in the history
RECURSIVE TotalLen(_)
TotalLen(ms) == IF ms = <<>> THEN 0 ELSE Len(Head(ms)) + TotalLen(Tail(ms))

\* the bound of the model: the next state keeps the text held and the
\* history within MaxText and MaxHist
Within == Len(input') + TotalLen(messages') <= MaxText /\ Len(messages') <= MaxHist


\* mpsc::Sender::send: queues the value unless the receiver was dropped
SendResult == IF rx_alive THEN SendOk ELSE SendErr

\* a faulty variant: send queues the value twice
SendChanTwice(msg) == IF rx_alive THEN Append(Append(chan, msg), msg) ELSE chan

SendChan(msg) == IF rx_alive THEN Append(chan, msg) ELSE chan

\* the Result submit returns
SubmitResult == IF tx_channel = Some THEN SendResult ELSE SendOk

\* a faulty variant: the history keeps only the latest message
SubmitEffectLatest ==
    /\ input' = <<>>
    /\ messages' = <<input>>
    /\ chan' = IF tx_channel = Some THEN SendChan(input) ELSE chan

\* a faulty variant: an empty input is not submitted
SubmitEffectSkipsEmpty ==
    /\ input' = <<>>
    /\ messages' = IF input = <<>> THEN messages ELSE Append(messages, input)
    /\ chan' = IF tx_channel = Some /\ input # <<>> THEN SendChan(input) ELSE chan

\* a faulty variant: submit pushes the message at the front of the history
SubmitEffectFront ==
    /\ input' = <<>>
    /\ messages' = <<input>> \o messages
    /\ chan' = IF tx_channel = Some THEN SendChan(input) ELSE chan

\* the effect of submit on input, messages and the channel
SubmitEffect ==
    /\ input' = <<>>
    /\ messages' = Append(messages, input)
    /\ chan' = IF tx_channel = Some THEN SendChan(input) ELSE chan

\* a direct call of submit()
submit ==
    /\ ~panicked
    /\ SubmitEffect
    /\ Within
    /\ last' = Call("submit", NoRead, "-", "-", -1, SubmitResult, <<>>)
    /\ UNCHANGED <<command_key, input_mode, tx_channel, width, key_database,
                   rx_alive, panicked, show_popup>>

\* the mode after normal()
normal(mode) == Normal

\* the mode after command_key_handler(key)
command_key_handler(mode) == IF mode = Normal THEN Editing ELSE mode

\* the mode after the callback f ran on the bar
Invoke(f, mode) == IF f = CkhClosure THEN command_key_handler(mode) ELSE mode

----------------------------------------------------------------------------
(* CommandBar::handle_event *)

\* the callbacks the Normal-mode branch invokes on Char(k), in order
CallsOn(k) ==
    IF contains_key(key_database, k) THEN <<(<<key_database[k], k>>)>> ELSE <<>>

\* the mode after the Normal-mode branch ran the callback of Char(k)
ModeAfterCallback(k) ==
    IF contains_key(key_database, k)
    THEN Invoke(key_database[k], input_mode)
    ELSE input_mode

\* a faulty variant: the check takes every registered key for the command key
CommandKeyMatchesAnyKey(k) == contains_key(key_database, k)

\* a faulty variant: the check only looks whether a command key is set
CommandKeyMatchesIfSet(k) == command_key # None

\* a faulty variant: an unset command key matches every character
CommandKeyMatchesUnset(k) == command_key = None \/ command_key = k

\* a faulty variant: the check never matches
CommandKeyMatchesNever(k) == FALSE

\* the built-in command key check of the Normal-mode branch: handled
CommandKeyMatches(k) == command_key # None /\ command_key = k

\* a faulty variant: the comparison admits an input that fills the width
FitsOrEqual == StrWidth(input) <= width

\* a faulty variant: the comparison leaves one cell free
FitsOneLess == StrWidth(input) + 1 < width

\* the Editing-mode branch pushes the character iff this holds
Fits == StrWidth(input) < width

\* a faulty variant: the first character is removed
PopFirst(s) == IF s = <<>> THEN s ELSE Tail(s)

\* String::pop
Pop(s) == IF s = <<>> THEN s ELSE SubSeq(s, 1, Len(s) - 1)

\* a faulty variant: a failed read also closes the bar
HandleReadErrorLeavesEditing(r) ==
    /\ ~panicked
    /\ ~r.ok
    /\ input_mode' = Normal
    /\ last' = Call("handle_event", r, "-", "-", -1, ResErr, <<>>)
    /\ UNCHANGED <<command_key, input, messages, tx_channel, width, key_database,
                   env, panicked>>

\* event::read() failed
HandleReadError(r) ==
    /\ ~panicked
    /\ ~r.ok
    /\ last' = Call("handle_event", r, "-", "-", -1, ResErr, <<>>)
    /\ UNCHANGED <<bar, env, panicked>>

\* a faulty variant: opening the bar starts from an empty input
HandleNormalCharClears(r) ==
    /\ ~panicked
    /\ r.ok /\ r.event.kind = "Key" /\ r.event.code = "Char"
    /\ input_mode = Normal
    /\ input_mode' = ModeAfterCallback(r.event.ch)
    /\ input' = IF input_mode' = Editing THEN <<>> ELSE input
    /\ last' = Call("handle_event", r, "-", "-", -1,
                    IF CommandKeyMatches(r.event.ch) THEN ResOk
                    ELSE ResUnhandled(r.event),
                    CallsOn(r.event.ch))
    /\ UNCHANGED <<command_key, messages, tx_channel, width, key_database,
                   env, panicked>>

\* Normal mode, Event::Key with KeyCode::Char(k)
HandleNormalChar(r) ==
    /\ ~panicked
    /\ r.ok /\ r.event.kind = "Key" /\ r.event.code = "Char"
    /\ input_mode = Normal
    /\ input_mode' = ModeAfterCallback(r.event.ch)
    /\ last' = Call("handle_event", r, "-", "-", -1,
                    IF CommandKeyMatches(r.event.ch) THEN ResOk
                    ELSE ResUnhandled(r.event),
                    CallsOn(r.event.ch))
    /\ UNCHANGED <<command_key, input, messages, tx_channel, width, key_database,
                   env, panicked>>

\* a faulty variant: Enter submits in Normal mode too
HandleNormalOtherSubmits(r) ==
    /\ ~panicked
    /\ r.ok /\ r.event.kind = "Key" /\ r.event.code # "Char"
    /\ input_mode = Normal
    /\ IF r.event.code = "Enter"
       THEN SubmitEffect
       ELSE UNCHANGED <<input, messages, chan>>
    /\ last' = Call("handle_event", r, "-", "-", -1, ResUnhandled(r.event), <<>>)
    /\ UNCHANGED <<command_key, input_mode, tx_channel, width, key_database,
                   rx_alive, panicked>>
    /\ Within

\* Normal mode, any other key
HandleNormalOther(r) ==
    /\ ~panicked
    /\ r.ok /\ r.event.kind = "Key" /\ r.event.code # "Char"
    /\ input_mode = Normal
    /\ last' = Call("handle_event", r, "-", "-", -1, ResUnhandled(r.event), <<>>)
    /\ UNCHANGED <<bar, env, panicked>>

\* a faulty variant: a send error becomes the outcome of the event
EnterResultEscalates == IF SubmitResult = SendErr THEN ResErr ELSE ResOk

\* the outcome of Enter: the error of submit is logged, handled is true
EnterResult == ResOk

\* Editing mode, KeyCode::Enter: submit(), error logged, then normal()
HandleEditingEnter(r) ==
    /\ ~panicked
    /\ r.ok /\ r.event.kind = "Key" /\ r.event.code = "Enter"
    /\ input_mode = Editing
    /\ SubmitEffect
    /\ Within
    /\ input_mode' = normal(input_mode)
    /\ last' = Call("handle_event", r, "-", "-", -1, EnterResult, <<>>)
    /\ UNCHANGED <<command_key, tx_channel, width, key_database, rx_alive, panicked>>

\* a faulty variant: the callback of a registered key also runs in Editing
HandleEditingCharDispatches(r) ==
    /\ ~panicked
    /\ r.ok /\ r.event.kind = "Key" /\ r.event.code = "Char"
    /\ input_mode = Editing
    /\ input' = IF Fits THEN Append(input, r.event.ch) ELSE input
    /\ last' = Call("handle_event", r, "-", "-", -1, ResOk, CallsOn(r.event.ch))
    /\ UNCHANGED <<command_key, input_mode, messages, tx_channel, width,
                   key_database, env, panicked>>
    /\ Within

\* Editing mode, KeyCode::Char(c)
HandleEditingChar(r) ==
    /\ ~panicked
    /\ r.ok /\ r.event.kind = "Key" /\ r.event.code = "Char"
    /\ input_mode = Editing
    /\ input' = IF Fits THEN Append(input, r.event.ch) ELSE input
    /\ last' = Call("handle_event", r, "-", "-", -1, ResOk, <<>>)
    /\ UNCHANGED <<command_key, input_mode, messages, tx_channel, width,
                   key_database, env, panicked>>
    /\ Within

\* a faulty variant: Backspace on an empty input closes the bar
HandleEditingBackspaceCloses(r) ==
    /\ ~panicked
    /\ r.ok /\ r.event.kind = "Key" /\ r.event.code = "Backspace"
    /\ input_mode = Editing
    /\ input' = Pop(input)
    /\ input_mode' = IF input = <<>> THEN Normal ELSE input_mode
    /\ last' = Call("handle_event", r, "-", "-", -1, ResOk, <<>>)
    /\ UNCHANGED <<command_key, messages, tx_channel, width,
                   key_database, env, panicked>>

\* Editing mode, KeyCode::Backspace
HandleEditingBackspace(r) ==
    /\ ~panicked
    /\ r.ok /\ r.event.kind = "Key" /\ r.event.code = "Backspace"
    /\ input_mode = Editing
    /\ input' = Pop(input)
    /\ last' = Call("handle_event", r, "-", "-", -1, ResOk, <<>>)
    /\ UNCHANGED <<command_key, input_mode, messages, tx_channel, width,
                   key_database, env, panicked>>

\* a faulty variant: Esc also discards the text typed so far
HandleEditingEscDiscards(r) ==
    /\ ~panicked
    /\ r.ok /\ r.event.kind = "Key" /\ r.event.code = "Esc"
    /\ input_mode = Editing
    /\ input_mode' = normal(input_mode)
    /\ input' = <<>>
    /\ last' = Call("handle_event", r, "-", "-", -1, ResOk, <<>>)
    /\ UNCHANGED <<command_key, messages, tx_channel, width, key_database,
                   env, panicked>>

\* Editing mode, KeyCode::Esc
HandleEditingEsc(r) ==
    /\ ~panicked
    /\ r.ok /\ r.event.kind = "Key" /\ r.event.code = "Esc"
    /\ input_mode = Editing
    /\ input_mode' = normal(input_mode)
    /\ last' = Call("handle_event", r, "-", "-", -1, ResOk, <<>>)
    /\ UNCHANGED <<command_key, input, messages, tx_channel, width, key_database,
                   env, panicked>>

\* Editing mode, any other key
HandleEditingOther(r) ==
    /\ ~panicked
    /\ r.ok /\ r.event.kind = "Key"
    /\ r.event.code \notin {"Enter", "Char", "Backspace", "Esc"}
    /\ input_mode = Editing
    /\ last' = Call("handle_event", r, "-", "-", -1, ResUnhandled(r.event), <<>>)
    /\ UNCHANGED <<bar, env, panicked>>

\* a faulty variant: a Resize event resets the width
HandleNonKeyResizes(r) ==
    /\ ~panicked
    /\ r.ok /\ r.event.kind \in {"Resize", "Mouse"}
    /\ width' = IF r.event.kind = "Resize" THEN 0 ELSE width
    /\ last' = Call("handle_event", r, "-", "-", -1, ResUnhandled(r.event), <<>>)
    /\ UNCHANGED <<command_key, input, input_mode, messages, tx_channel,
                   key_database, env, panicked>>

\* Event::Resize and Event::Mouse
HandleNonKey(r) ==
    /\ ~panicked
    /\ r.ok /\ r.event.kind \in {"Resize", "Mouse"}
    /\ last' = Call("handle_event", r, "-", "-", -1, ResUnhandled(r.event), <<>>)
    /\ UNCHANGED <<bar, env, panicked>>

\* handle_event, event::read() returning r
handle_event(r) ==
    \/ HandleReadError(r)
    \/ HandleNormalChar(r)
    \/ HandleNormalOther(r)
    \/ HandleEditingEnter(r)
    \/ HandleEditingChar(r)
    \/ HandleEditingBackspace(r)
    \/ HandleEditingEsc(r)
    \/ HandleEditingOther(r)
    \/ HandleNonKey(r)

\* handle_event called on the bar itself: no field of a Popup is written
CommandBarHandleEvent(r) ==
    \/ HandleReadError(r) /\ UNCHANGED show_popup
    \/ HandleNormalChar(r) /\ UNCHANGED show_popup
    \/ HandleNormalOther(r) /\ UNCHANGED show_popup
    \/ HandleEditingEnter(r) /\ UNCHANGED show_popup
    \/ HandleEditingChar(r) /\ UNCHANGED show_popup
    \/ HandleEditingBackspace(r) /\ UNCHANGED show_popup
    \/ HandleEditingEsc(r) /\ UNCHANGED show_popup
    \/ HandleEditingOther(r) /\ UNCHANGED show_popup
    \/ HandleNonKey(r) /\ UNCHANGED show_popup

----------------------------------------------------------------------------
(* impl Widget for &mut CommandBar *)

\* area.width - 2 on u16 underflows when area.width < 2
Underflows(w) == w < 2

\* the wrapped difference a build without overflow checks computes
WrappingSub2(w) == (w - 2 + U16) % U16

\* render by exclusive reference into an area w cells wide
render(w) ==
    /\ ~panicked
    /\ \/ /\ width' = WrappingSub2(w)
          /\ last' = Call("render", NoRead, "-", "-", w, Drawn, <<>>)
          /\ UNCHANGED panicked
       \/ \* a build with overflow checks panics on the subtraction
          /\ Underflows(w)
          /\ panicked' = TRUE
          /\ last' = Call("render", NoRead, "-", "-", w, NoResult, <<>>)
          /\ UNCHANGED width
    /\ UNCHANGED <<command_key, input, input_mode, messages, tx_channel,
                   key_database, env, show_popup>>

\* render of a bar taken by value (the bar itself or a clone of it): the
\* body is empty, nothing is drawn and no field is written
render_by_value(w) ==
    /\ ~panicked
    /\ last' = Call("render_by_value", NoRead, "-", "-", w, NoResult, <<>>)
    /\ UNCHANGED <<bar, env, panicked, show_popup>>

\* render by shared reference: the body is empty
render_by_ref(w) ==
    /\ ~panicked
    /\ last' = Call("render_by_ref", NoRead, "-", "-", w, NoResult, <<>>)
    /\ UNCHANGED <<bar, env, panicked, show_popup>>

----------------------------------------------------------------------------
(* Popup: src/src/widgets/popup.rs *)

\* a faulty variant: the Popup only inserts the callback
PopupRegisterKeyInserts(key, f) ==
    /\ ~panicked
    /\ key_database' = Insert(key_database, key, f)
    /\ last' = Call("register_key", NoRead, key, f, -1, NoResult, <<>>)
    /\ UNCHANGED <<command_key, input, input_mode, messages, tx_channel, width,
                   env, panicked, show_popup>>

\* Popup's KeyHook::register_key: writes the two fields of its command_bar
PopupRegisterKey(key, f) ==
    /\ ~panicked
    /\ command_key' = key
    /\ key_database' = Insert(key_database, key, f)
    /\ last' = Call("register_key", NoRead, key, f, -1, NoResult, <<>>)
    /\ UNCHANGED <<input, input_mode, messages, tx_channel, width, env, panicked,
                   show_popup>>

\* a faulty variant: the command key is kept when its callback is removed
PopupUnregisterKeyKeeps(key) ==
    /\ ~panicked
    /\ key_database' = Remove(key_database, key)
    /\ last' = Call("unregister_key", NoRead, key, "-", -1, NoResult, <<>>)
    /\ UNCHANGED <<command_key, input, input_mode, messages, tx_channel, width,
                   env, panicked, show_popup>>

\* Popup's KeyHook::unregister_key
PopupUnregisterKey(key) ==
    /\ ~panicked
    /\ key_database' = Remove(key_database, key)
    /\ command_key' = IF command_key # None /\ command_key = key
                      THEN None ELSE command_key
    /\ last' = Call("unregister_key", NoRead, key, "-", -1, NoResult, <<>>)
    /\ UNCHANGED <<input, input_mode, messages, tx_channel, width, env, panicked,
                   show_popup>>

\* a faulty variant: show_popup follows the mode after every outcome
ShowPopupAfterAlways(res, mode, shown) == mode = Editing

\* show_popup after Popup::handle_event: res is the outcome of the bar's
\* handle_event, mode the bar's mode after it, shown the value before
ShowPopupAfter(res, mode, shown) ==
    IF res = ResOk THEN mode = Editing ELSE shown

\* Popup::handle_event: the bar's handle_event, then show_popup; the
\* outcome returned is the bar's
PopupHandleEvent(r) ==
    /\ handle_event(r)
    /\ show_popup' = ShowPopupAfter(last'.res, input_mode', show_popup)

\* render of &mut Popup: the render of its command_bar by exclusive reference
PopupRender(w) ==
    render(w)

\* render of a Popup taken by value: the render of its command_bar by value
PopupRenderByValue(w) ==
    render_by_value(w)

\* render of &Popup: the render of its command_bar by shared reference
PopupRenderByRef(w) ==
    render_by_ref(w)

----------------------------------------------------------------------------
(* The receiving end of the channel *)

\* the host drops the Receiver: what is queued is dropped with it
drop_rx ==
    /\ ~panicked
    /\ tx_channel = Some
    /\ rx_alive
    /\ rx_alive' = FALSE
    /\ chan' = <<>>
    /\ last' = Call("drop_rx", NoRead, "-", "-", -1, NoResult, <<>>)
    /\ UNCHANGED <<bar, panicked, show_popup>>

\* Receiver::recv with a value queued: returns the oldest one
recv ==
    /\ ~panicked
    /\ rx_alive
    /\ chan # <<>>
    /\ chan' = Tail(chan)
    /\ last' = Call("recv", NoRead, "-", "-", -1,
                    [tag |-> "Received", event |-> NoEvent, value |-> Head(chan)], <<>>)
    /\ UNCHANGED <<bar, rx_alive, panicked, show_popup>>

----------------------------------------------------------------------------
(* The specifications *)

\* the results of event::read() over the characters cs
Events(cs) ==
    {KeyChar(c) : c \in cs}
        \cup {KeyEnter, KeyEsc, KeyBackspace, KeyTab, ResizeEvent, MouseEvent}

Reads(cs) == {ReadOk(e) : e \in Events(cs)} \cup {ReadErr}

\* Spec: one registrable key, narrow characters, a wide enough area
Keys == {":"}
Typed == {":", "a", "b"}
Areas == {MaxArea}

Next ==
    \/ \E k \in Keys : register_key(k, CkhClosure)
    \/ \E k \in Keys : unregister_key(k)
    \/ \E r \in Reads(Typed) : CommandBarHandleEvent(r)
    \/ submit
    \/ \E w \in Areas : render(w)
    \/ drop_rx
    \/ recv

Spec == Init /\ [][Next]_vars

\* SpecKeys: two registrable keys
KeysKeys == {":", "a"}

NextKeys ==
    \/ \E k \in KeysKeys, f \in Callbacks : register_key(k, f)
    \/ \E k \in KeysKeys : unregister_key(k)
    \/ \E r \in Reads(Typed) : CommandBarHandleEvent(r)
    \/ \E w \in Areas : render(w)

InitKeys == Init /\ tx_channel = None

SpecKeys == InitKeys /\ [][NextKeys]_vars

\* SpecText: characters of every display width, areas of every width
KeysText == {"a"}
TypedText == {"a", "W", "Z"}
AreasText == 0..MaxArea

NextText ==
    \/ \E k \in KeysText : register_key(k, CkhClosure)
    \/ \E r \in Reads(TypedText) : CommandBarHandleEvent(r)
    \/ \E w \in AreasText : render(w)

InitText == Init /\ tx_channel = None

SpecText == InitText /\ [][NextText]_vars

\* SpecPopup: a Popup::default() driven through the Popup's own operations
NextPopup ==
    \/ \E k \in KeysKeys, f \in Callbacks : PopupRegisterKey(k, f)
    \/ \E k \in KeysKeys : PopupUnregisterKey(k)
    \/ \E r \in Reads(Typed) : PopupHandleEvent(r)
    \/ \E w \in Areas : PopupRender(w)

InitPopup == Init /\ tx_channel = None

SpecPopup == InitPopup /\ [][NextPopup]_vars

\* SpecRender: every render variant of the bar and of the Popup, areas of
\* every width
NextRender ==
    \/ \E k \in KeysText : register_key(k, CkhClosure)
    \/ \E r \in Reads(KeysText) : CommandBarHandleEvent(r)
    \/ \E w \in AreasText : render(w)
    \/ \E w \in AreasText : render_by_value(w)
    \/ \E w \in AreasText : render_by_ref(w)
    \/ \E w \in AreasText : PopupRender(w)
    \/ \E w \in AreasText : PopupRenderByValue(w)
    \/ \E w \in AreasText : PopupRenderByRef(w)

InitRender == Init /\ tx_channel = None

SpecRender == InitRender /\ [][NextRender]_vars

\* SpecKeyHook: the KeyHook of the Popup and the KeyHook of its command_bar
\* called directly, between events handled by the Popup
NextKeyHook ==
    \/ \E k \in KeysKeys, f \in Callbacks : PopupRegisterKey(k, f)
    \/ \E k \in KeysKeys : PopupUnregisterKey(k)
    \/ \E k \in KeysKeys, f \in Callbacks : register_key(k, f)
    \/ \E k \in KeysKeys : unregister_key(k)
    \/ \E r \in Reads(KeysKeys) : PopupHandleEvent(r)

InitKeyHook == Init /\ tx_channel = None

SpecKeyHook == InitKeyHook /\ [][NextKeyHook]_vars

----------------------------------------------------------------------------
(* Properties *)

\* the step is a handle_event call that read the event e
Did(e) == last'.op = "handle_event" /\ last'.read = ReadOk(e)

\* the state reached by the step follows a handle_event call that read e
Done(e) == last.op = "handle_event" /\ last.read = ReadOk(e)

\* a bar with an open output channel and only ':' registered, with
\* command_key_handler, rendered into an area at least 4 cells wide
E2E(mode, inp, msgs, queued) ==
    /\ command_key = ":"
    /\ key_database = [c \in Chars |-> IF c = ":" THEN CkhClosure ELSE None]
    /\ width >= 2 /\ width <= MaxArea
    /\ tx_channel = Some /\ rx_alive
    /\ input_mode = mode
    /\ input = inp
    /\ messages = msgs
    /\ chan = queued

\* C1: on a fresh bar with an output channel, rendered into an area at least
\* 4 cells wide and with ':' registered with command_key_handler, the events
\* Char(':'), Char('a'), Char('b'), Enter are each Handled; the mode is
\* Editing after the first, input is "a" and then "ab" after the next two,
\* and after Enter the mode is Normal, input is empty, the history is
\* ["ab"] and the channel holds exactly one value, "ab", which recv returns.
C1_EndToEnd ==
    [][ /\ E2E(Normal, <<>>, <<>>, <<>>) /\ Did(KeyChar(":"))
            => last'.res = ResOk /\ E2E(Editing, <<>>, <<>>, <<>>)'
        /\ E2E(Editing, <<>>, <<>>, <<>>) /\ Did(KeyChar("a"))
            => last'.res = ResOk /\ E2E(Editing, <<"a">>, <<>>, <<>>)'
        /\ E2E(Editing, <<"a">>, <<>>, <<>>) /\ Did(KeyChar("b"))
            => last'.res = ResOk /\ E2E(Editing, <<"a", "b">>, <<>>, <<>>)'
        /\ E2E(Editing, <<"a", "b">>, <<>>, <<>>) /\ Did(KeyEnter)
            => last'.res = ResOk
               /\ E2E(Normal, <<>>, << <<"a", "b">> >>, << <<"a", "b">> >>)'
        /\ E2E(Normal, <<>>, << <<"a", "b">> >>, << <<"a", "b">> >>)
           /\ last'.op = "recv"
            => last'.res.value = <<"a", "b">> /\ chan' = <<>>
      ]_vars

C1_Witness ==
    /\ Done(KeyEnter) /\ last.res = ResOk
    /\ E2E(Normal, <<>>, << <<"a", "b">> >>, << <<"a", "b">> >>)

C3_RegisteredKeyHandled ==
    [][ \A c \in Chars :
          input_mode = Normal /\ contains_key(key_database, c) /\ Did(KeyChar(c))
            => /\ last'.calls = << <<key_database[c], c>> >>
               /\ last'.res = ResOk ]_vars

\* C4: from Normal mode, a Char event equal to the command key, registered
\* with command_key_handler, puts the bar in Editing and is Handled; a Char
\* event whose character differs from every registered key and from the
\* command key is Unhandled, carries that event and leaves the mode Normal.
C4_CommandKeyOrUnhandled ==
    [][ \A c \in Chars :
          /\ input_mode = Normal /\ command_key = c
             /\ key_database[c] = CkhClosure /\ Did(KeyChar(c))
               => input_mode' = Editing /\ last'.res = ResOk
          /\ input_mode = Normal /\ command_key # c
             /\ ~contains_key(key_database, c) /\ Did(KeyChar(c))
               => input_mode' = Normal /\ last'.res = ResUnhandled(KeyChar(c))
      ]_vars

C4_Witness ==
    /\ Done(KeyChar("b")) /\ last.res = ResUnhandled(KeyChar("b"))
    /\ command_key = ":"
    /\ contains_key(key_database, "a") /\ contains_key(key_database, ":")
    /\ input_mode = Normal

\* C5: an Enter event in Editing mode with a non-empty input s empties
\* input, appends s as the last entry of the history leaving the earlier
\* entries unchanged, returns the bar to Normal and is Handled, whether the
\* output sink is absent, open or disconnected.
C5_EnterSubmits ==
    [][ input_mode = Editing /\ input # <<>> /\ Did(KeyEnter)
          => /\ input' = <<>>
             /\ messages' = Append(messages, input)
             /\ input_mode' = Normal
             /\ last'.res = ResOk ]_vars

C5_Witness ==
    /\ Done(KeyEnter) /\ last.res = ResOk
    /\ tx_channel = Some /\ ~rx_alive
    /\ Len(messages) = 2 /\ messages[1] # messages[2] /\ messages[2] # <<>>
    /\ input = <<>> /\ input_mode = Normal

\* C6: the display width of input never exceeds max_width (width).
C6_InputWithinWidth == StrWidth(input) <= width

\* C7: a Char(c) event in Editing mode is Handled and keeps the mode Editing,
\* and c is appended to input iff appending it keeps the display width of
\* input at most max_width; otherwise input is unchanged.
C7_AcceptedIffFits ==
    [][ \A c \in Chars :
          input_mode = Editing /\ Did(KeyChar(c))
            => /\ last'.res = ResOk
               /\ input_mode' = Editing
               /\ input' = IF StrWidth(Append(input, c)) <= width
                            THEN Append(input, c)
                            ELSE input ]_vars

\* s is the end of t
IsSuffix(s, t) ==
    Len(s) <= Len(t) /\ s = SubSeq(t, Len(t) - Len(s) + 1, Len(t))

\* the step is a submit: a direct call, or Enter read in Editing mode
Submits == last'.op = "submit" \/ (input_mode = Editing /\ Did(KeyEnter))

\* C8: with an output sink attached and its receiver alive, each submit (a
\* direct call or Enter in Editing) queues exactly one value, the submitted
\* text, behind the values queued before; no other call of the bar queues
\* or removes a value; the receiver takes the values oldest first, so what
\* waits in the channel is always the latest entries of the history, in
\* order.
C8_OneValuePerSubmit ==
    [][ tx_channel = Some /\ rx_alive
          => /\ Submits => chan' = Append(chan, input)
             /\ ~Submits /\ last'.op \notin {"recv", "drop_rx"} => chan' = chan
             /\ last'.op = "recv"
                  => last'.res.value = Head(chan) /\ chan' = Tail(chan)
             /\ rx_alive' => IsSuffix(chan', messages') ]_vars

C8_Witness ==
    /\ last.op = "recv" /\ last.res.value = <<"a">>
    /\ tx_channel = Some /\ rx_alive
    /\ messages = << <<"a">>, <<"b">> >>
    /\ chan = << <<"b">> >>

\* C9: a send failure never becomes the outcome of the event: Enter in
\* Editing mode is Handled also when the receiver of the attached sink was
\* dropped; a direct submit() returns an error exactly when a sink is
\* attached and its receiver was dropped.
C9_SendFailureNotEscalated ==
    [][ /\ input_mode = Editing /\ Did(KeyEnter) => last'.res = ResOk
        /\ last'.op = "submit"
             => last'.res = IF tx_channel = Some /\ ~rx_alive THEN SendErr ELSE SendOk
      ]_vars

C9_Witness ==
    /\ Done(KeyEnter) /\ last.res = ResOk
    /\ tx_channel = Some /\ ~rx_alive
    /\ messages = << <<"a">> >>
    /\ chan = <<>>

\* C10: after a call of submit() made in Editing mode the message is in the
\* history and the bar is in Normal mode, whatever the send outcome.
C10_SubmitCloses ==
    [][ input_mode = Editing /\ last'.op = "submit"
          => messages' = Append(messages, input) /\ input_mode' = Normal ]_vars

\* C11: when event::read() fails, handle_event returns Err, leaves the
\* command key, the mode, the input, the history, the width, the registry
\* and the channel unchanged and invokes no callback, in either mode and
\* with or without a registered command key.
C11_ReadErrorLeavesState ==
    [][ last'.op = "handle_event" /\ last'.read = ReadErr
          => /\ last'.res = ResErr
             /\ last'.calls = <<>>
             /\ UNCHANGED <<bar, env>> ]_vars

C11_Witness ==
    /\ last.op = "handle_event" /\ last.read = ReadErr /\ last.res = ResErr
    /\ input_mode = Editing /\ input # <<>>
    /\ command_key = ":" /\ key_database["a"] # None

\* C12: Popup::handle_event returns the outcome of its bar's handle_event;
\* after an Ok outcome show_popup is true exactly when the bar is in Editing
\* mode, after an Err or Unhandled outcome show_popup is what it was.
C12_PopupFollowsHandled ==
    [][ last'.op = "handle_event"
          => /\ last'.res = ResOk => show_popup' = (input_mode' = Editing)
             /\ last'.res # ResOk => show_popup' = show_popup ]_vars

C12_Witness ==
    /\ Done(KeyEsc) /\ last.res = ResOk
    /\ input_mode = Normal /\ ~show_popup
    /\ input # <<>>

\* C13: after every handle_event of a Popup built by Popup::default() and
\* driven only through the Popup's register_key, unregister_key and
\* handle_event, show_popup is true exactly when the bar is in Editing mode.
C13_VisibleIsEditing ==
    last.op = "handle_event" => show_popup = (input_mode = Editing)

\* C14: unregister_key(k) removes the callback of k and nothing else from
\* the registry, clears command_key exactly when it is k and changes no
\* other field, also when k has no callback (then nothing changes and
\* nothing fails); a Char(k) event read in Normal mode right after
\* unregister_key(k) is Unhandled and leaves the mode Normal.
C14_UnregisterClears ==
    [][ /\ last'.op = "unregister_key"
          => /\ key_database' = [key_database EXCEPT ![last'.key] = None]
             /\ command_key' = IF command_key = last'.key THEN None ELSE command_key
             /\ UNCHANGED <<input, input_mode, messages, tx_channel, width, env,
                            panicked>>
             /\ ~contains_key(key_database, last'.key) /\ command_key # last'.key
                  => UNCHANGED <<bar, env, panicked>>
        /\ \A c \in Chars :
             /\ last.op = "unregister_key" /\ last.key = c
             /\ input_mode = Normal /\ Did(KeyChar(c))
             => /\ last'.res = ResUnhandled(KeyChar(c))
                /\ last'.calls = <<>>
                /\ input_mode' = Normal
      ]_vars

C14_Witness ==
    /\ last.op = "unregister_key" /\ last.key = ":"
    /\ command_key = None
    /\ key_database[":"] = None /\ key_database["a"] = CkhClosure
    /\ input_mode = Normal

\* C15: after register_key(k, f) the registry maps k to f, whatever it
\* mapped k to before, and command_key is k; a Char(k) event read in Normal
\* mode right after it invokes f, once, and no other callback; no Char
\* event invokes more than one callback.
C15_RegisterReplaces ==
    [][ /\ last'.op = "register_key"
          => /\ key_database'[last'.key] = last'.fn
             /\ command_key' = last'.key
        /\ \A c \in Chars :
             /\ last.op = "register_key" /\ last.key = c
             /\ input_mode = Normal /\ Did(KeyChar(c))
             => last'.calls = << <<last.fn, c>> >>
        /\ last'.op = "handle_event" => Len(last'.calls) <= 1
      ]_vars

C15_Witness ==
    /\ Done(KeyChar(":")) /\ last.calls = << <<NoopClosure, ":">> >>
    /\ last.res = ResOk
    /\ command_key = ":" /\ key_database[":"] = NoopClosure
    /\ input_mode = Normal /\ input # <<>>

\* C16 as stated: register_key(k, f) changes the registry entry of k and
\* nothing else: command_key, the mode, the input, the history, the width,
\* the sink and the other entries are unchanged, and it never fails.
C16_AsClaimed ==
    [][ last'.op = "register_key"
          => /\ key_database' = [key_database EXCEPT ![last'.key] = last'.fn]
             /\ UNCHANGED <<command_key, input, input_mode, messages, tx_channel,
                            width, env, panicked>> ]_vars

\* C16: register_key(k, f) sets the registry entry of k to f and command_key
\* to k and changes nothing else: the mode, the input, the history, the
\* width, the sink and the other entries are unchanged, and it never fails.
C16_RegisterEffect ==
    [][ last'.op = "register_key"
          => /\ key_database' = [key_database EXCEPT ![last'.key] = last'.fn]
             /\ command_key' = last'.key
             /\ UNCHANGED <<input, input_mode, messages, tx_channel, width, env,
                            panicked>> ]_vars

C16_Witness ==
    /\ last.op = "register_key" /\ last.key = "a"
    /\ command_key = "a"
    /\ key_database[":"] = CkhClosure /\ key_database["a"] = NoopClosure
    /\ input_mode = Editing /\ input # <<>>

\* C17: an Esc event in Editing mode puts the bar in Normal mode and is
\* Handled; the input, the history and the channel are unchanged.
C17_EscKeepsText ==
    [][ input_mode = Editing /\ Did(KeyEsc)
          => /\ input_mode' = Normal
             /\ last'.res = ResOk
             /\ UNCHANGED <<input, messages, env>> ]_vars

C17_Witness ==
    /\ Done(KeyEsc) /\ last.res = ResOk
    /\ input_mode = Normal
    /\ input = <<"b">> /\ messages = << <<"a">> >>
    /\ tx_channel = Some /\ rx_alive /\ chan = << <<"a">> >>

\* C18: a Backspace event in Editing mode removes the last character of a
\* non-empty input and nothing else, leaves an empty input empty, keeps the
\* mode Editing and is Handled; the history, command_key and the sink are
\* unchanged.
C18_BackspacePopsLast ==
    [][ input_mode = Editing /\ Did(KeyBackspace)
          => /\ input # <<>> => input = Append(input', input[Len(input)])
             /\ input = <<>> => input' = <<>>
             /\ input_mode' = Editing
             /\ last'.res = ResOk
             /\ UNCHANGED <<messages, command_key, tx_channel, env>> ]_vars

C18_Witness ==
    /\ Done(KeyBackspace) /\ last.res = ResOk
    /\ input_mode = Editing
    /\ input = <<"b">>

\* C19: a Resize or Mouse event, in either mode and with or without a
\* command key, is Unhandled with the event that was read, invokes no
\* callback and changes no field of the bar, the width included.
C19_NonKeyUnhandled ==
    [][ Did(ResizeEvent) \/ Did(MouseEvent)
          => /\ last'.res = ResUnhandled(last'.read.event)
             /\ last'.calls = <<>>
             /\ UNCHANGED <<bar, env, panicked>> ]_vars

C19_Witness ==
    /\ Done(ResizeEvent) /\ last.res = ResUnhandled(ResizeEvent)
    /\ input_mode = Editing /\ input # <<>>
    /\ width = MaxArea - 2 /\ command_key = ":"

\* a bar as CommandBar::default() leaves it, the width apart: no command
\* key, no callback, Normal mode, empty input and empty history
Unregistered ==
    /\ command_key = None
    /\ \A c \in Chars : ~contains_key(key_database, c)
    /\ input_mode = Normal
    /\ input = <<>>
    /\ messages = <<>>

\* C20: a bar on which no key was ever registered starts Unregistered and
\* every event (and every render) leaves it so: the mode stays Normal, the
\* input and the history stay empty; every Char event is Unhandled with
\* that event and every outcome is Unhandled or Err.
C20_NoKeyNoEditing ==
    /\ Unregistered
    /\ [][ Unregistered /\ last'.op \in {"handle_event", "render"}
             => /\ Unregistered'
                /\ last'.op = "handle_event"
                     => /\ last'.res.tag \in {"Unhandled", "Err"}
                        /\ last'.calls = <<>>
                /\ \A c \in Chars : Did(KeyChar(c))
                     => last'.res = ResUnhandled(KeyChar(c)) ]_vars

C20_Witness ==
    /\ Done(KeyChar(":")) /\ last.res = ResUnhandled(KeyChar(":"))
    /\ Unregistered
    /\ width = MaxArea - 2

\* C21: right after CommandBar::default() the bar is in Normal mode with
\* empty input, empty history, no command key, no sink, width 0 and an empty
\* registry, and the Popup holding it has show_popup false; right after
\* default_with_tx_channel the same holds except that the sink is set.
C21_InitialState ==
    last.op \in {"default", "default_with_tx_channel"}
      => /\ input_mode = Normal
         /\ input = <<>>
         /\ messages = <<>>
         /\ command_key = None
         /\ width = 0
         /\ \A c \in Chars : ~contains_key(key_database, c)
         /\ ~show_popup
         /\ tx_channel = Some <=> last.op = "default_with_tx_channel"
         /\ tx_channel = None <=> last.op = "default"

C21_Witness ==
    /\ last.op = "default_with_tx_channel"
    /\ tx_channel = Some /\ rx_alive /\ chan = <<>>
    /\ input_mode = Normal /\ width = 0

\* C22: every render, by value, by shared reference or by exclusive
\* reference, of the bar or through the Popup, into an area at least 2
\* cells wide draws the box and sets width to the area width minus 2.
C22_RenderVariantsAgree ==
    [][ /\ last'.op \in {"render", "render_by_value", "render_by_ref"}
        /\ last'.area >= 2
          => /\ width' = last'.area - 2
             /\ last'.res = Drawn ]_vars

\* C23: the text s left in input by an Esc stays there while the bar is in
\* Normal mode, whatever events, renders and registrations happen; the
\* command key, with command_key_handler, re-enters Editing with input
\* still s; a character accepted in Editing is appended at the end of
\* input; Enter appends the whole input to the history as one entry.
C23_PreserveOnEscape ==
    [][ /\ input_mode = Editing /\ Did(KeyEsc)
          => input_mode' = Normal /\ input' = input
        /\ /\ input_mode = Normal
           /\ last'.op \in {"handle_event", "render", "register_key", "unregister_key"}
          => input' = input
        /\ \A c \in Chars :
             /\ input_mode = Normal /\ command_key = c
             /\ key_database[c] = CkhClosure /\ Did(KeyChar(c))
             => input_mode' = Editing /\ input' = input /\ last'.res = ResOk
        /\ \A c \in Chars :
             input_mode = Editing /\ Did(KeyChar(c))
             => input' = input \/ input' = Append(input, c)
        /\ input_mode = Editing /\ Did(KeyEnter)
          => messages' = Append(messages, input) /\ input' = <<>>
      ]_vars

C23_Witness ==
    /\ Done(KeyChar(":")) /\ last.res = ResOk
    /\ last.calls = << <<CkhClosure, ":">> >>
    /\ input_mode = Editing
    /\ input = <<"a">>
    /\ width = MaxArea - 2

\* C24: a handle_event call that returns Unhandled or Err changed nothing:
\* the mode, the input, the history, command_key, the registry and the
\* channel are as before the call, and Unhandled carries the event read.
C24_UnhandledChangesNothing ==
    [][ last'.op = "handle_event" /\ last'.res.tag \in {"Unhandled", "Err"}
          => /\ UNCHANGED <<input_mode, input, messages, command_key, key_database,
                            env>>
             /\ last'.res.tag = "Unhandled"
                  => last'.res = ResUnhandled(last'.read.event) ]_vars

\* C25: in Normal mode a key event that is not a character (Enter, Esc,
\* Backspace, any other) is Unhandled with that event and changes nothing,
\* so Enter submits nothing; in Editing mode a key other than Enter, Esc,
\* Backspace and a character is Unhandled with that event and changes
\* nothing, the mode staying Editing.
C25_UnrecognisedKeys ==
    [][ ( /\ last'.op = "handle_event" /\ last'.read.ok
          /\ last'.read.event.kind = "Key"
          /\ \/ input_mode = Normal /\ last'.read.event.code # "Char"
             \/ /\ input_mode = Editing
                /\ last'.read.event.code \notin {"Enter", "Esc", "Backspace", "Char"} )
          => /\ last'.res = ResUnhandled(last'.read.event)
             /\ UNCHANGED <<bar, env, panicked>> ]_vars

C25_Witness ==
    /\ Done(KeyEnter) /\ last.res = ResUnhandled(KeyEnter)
    /\ input_mode = Normal
    /\ input = <<"a">> /\ messages = <<>>
    /\ tx_channel = Some /\ rx_alive /\ chan = <<>>

\* C26: render by exclusive reference into an area of any width w, 0 and 1
\* included, does not panic and leaves a width that is at most w.
C26_RenderNeverUnderflows ==
    [][ last'.op = "render" => ~panicked' /\ width' <= last'.area ]_vars

\* C27: while the width is 0, as on a bar never rendered by exclusive
\* reference, the input is empty and stays empty: a character event read in
\* Editing mode is Handled and appends nothing, whatever the display width
\* of the character, and an Enter read in Editing mode submits the empty
\* string.
C27_NoWidthNoText ==
    [][ width = 0 /\ input = <<>> /\ last'.op = "handle_event"
          => /\ width' = 0 /\ input' = <<>>
             /\ \A c \in Chars : input_mode = Editing /\ Did(KeyChar(c))
                  => last'.res = ResOk /\ input_mode' = Editing
             /\ input_mode = Editing /\ Did(KeyEnter)
                  => /\ messages' = Append(messages, <<>>)
                     /\ last'.res = ResOk ]_vars

C27_Witness ==
    /\ Done(KeyChar("Z")) /\ last.res = ResOk
    /\ input_mode = Editing
    /\ width = 0 /\ input = <<>>
    /\ messages = << <<>> >>

\* C28: over handle_event, render, register_key and unregister_key calls
\* the mode changes only in a handle_event call: from Editing to Normal
\* only when it read Enter or Esc, from Normal to Editing only when it read
\* a character whose registered callback it invoked.
C28_ModeChangesByDispatch ==
    [][ input_mode' # input_mode
          => /\ last'.op = "handle_event" /\ last'.read.ok
             /\ input_mode = Editing => last'.read.event \in {KeyEnter, KeyEsc}
             /\ input_mode = Normal
                  => /\ last'.read.event.code = "Char"
                     /\ last'.calls
                          = << <<key_database[last'.read.event.ch],
                                 last'.read.event.ch>> >>
                     /\ contains_key(key_database, last'.read.event.ch) ]_vars

C28_Witness ==
    /\ Done(KeyChar("a")) /\ last.calls = << <<CkhClosure, "a">> >>
    /\ input_mode = Editing
    /\ command_key = ":" /\ key_database[":"] = NoopClosure

\* C29: the history is append-only: a handle_event call that read Enter
\* in Editing mode and a direct submit() append exactly one entry, the
\* input, at the end and leave the earlier entries as they were; every
\* other operation leaves the history unchanged.
C29_HistoryAppendOnly ==
    [][ IF \/ input_mode = Editing /\ Did(KeyEnter)
           \/ last'.op = "submit"
        THEN messages' = Append(messages, input)
        ELSE messages' = messages ]_vars

C29_Witness ==
    /\ last.op = "submit"
    /\ messages = << <<"a">>, <<"b">> >>
    /\ input_mode = Editing /\ input = <<>>

\* C30: an Enter read in Editing mode with an empty input appends the empty
\* string to the history, sends the empty string on the sink when one is
\* attached (it is queued when the receiver is alive), sets Normal mode and
\* is Handled.
C30_EmptySubmit ==
    [][ input_mode = Editing /\ input = <<>> /\ Did(KeyEnter)
          => /\ messages' = Append(messages, <<>>)
             /\ chan' = IF tx_channel = Some /\ rx_alive
                        THEN Append(chan, <<>>) ELSE chan
             /\ input' = <<>>
             /\ input_mode' = Normal
             /\ last'.res = ResOk ]_vars

C30_Witness ==
    /\ Done(KeyEnter) /\ last.res = ResOk
    /\ input_mode = Normal /\ input = <<>>
    /\ messages = << <<>> >>
    /\ tx_channel = Some /\ rx_alive /\ chan = << <<>> >>

\* C31: a character event read in Editing mode invokes no callback, also
\* when the character is the command key or has a callback: the character
\* is text, appended at the end of input when input is narrower than the
\* width and dropped otherwise; the mode stays Editing, the registry and
\* command_key are unchanged and the event is Handled.
C31_NoDispatchWhileEditing ==
    [][ \A c \in Chars :
          input_mode = Editing /\ Did(KeyChar(c))
          => /\ last'.calls = <<>>
             /\ last'.res = ResOk
             /\ input_mode' = Editing
             /\ input' = input \/ input' = Append(input, c)
             /\ StrWidth(input) < width => input' = Append(input, c)
             /\ UNCHANGED <<command_key, key_database, messages>> ]_vars

C31_Witness ==
    /\ Done(KeyChar(":")) /\ last.res = ResOk /\ last.calls = <<>>
    /\ command_key = ":" /\ key_database[":"] = CkhClosure
    /\ key_database["a"] = CkhClosure
    /\ input_mode = Editing
    /\ input = <<"a", ":">>

\* C32: whenever command_key is set, that character has a callback in the
\* registry; a register_key call sets command_key to its key and no other
\* call sets it to a character, so command_key is none or the key of the
\* most recent register_key call.
C32_CommandKeyRegistered ==
    /\ [](command_key # None => contains_key(key_database, command_key))
    /\ [][ /\ last'.op = "register_key" => command_key' = last'.key
           /\ last'.op # "register_key" => command_key' \in {command_key, None}
         ]_vars

C32_Witness ==
    /\ last.op = "unregister_key" /\ last.key = ":"
    /\ command_key = "a"
    /\ key_database["a"] = NoopClosure /\ key_database[":"] = None
    /\ show_popup

\* C33: in every state, register_key(k, f) of the Popup and register_key(k, f)
\* of its command_bar lead to the same state, and so do the two
\* unregister_key(k): the same command_key and the same registry, every
\* other field unchanged; none of the four changes show_popup.
C33_PopupKeyHookAsBar ==
    [][ /\ \A k \in Chars, f \in Callbacks :
             PopupRegisterKey(k, f) <=> register_key(k, f)
        /\ \A k \in Chars :
             PopupUnregisterKey(k) <=> unregister_key(k)
        /\ last'.op \in {"register_key", "unregister_key"}
             => UNCHANGED <<show_popup, input, input_mode, messages, width,
                           tx_channel, env>>
      ]_vars

C33_Witness ==
    /\ last.op = "register_key" /\ last.key = "a" /\ last.fn = NoopClosure
    /\ command_key = "a"
    /\ key_database["a"] = NoopClosure /\ key_database[":"] = CkhClosure
    /\ show_popup /\ input_mode = Editing

====
